---- MODULE Spec2Model ----
(***************************************************************************)
(* Model of scripts/pull_arcgis_data.py: get_case_counts, write_data and   *)
(* the batch loop of __main__.                                             *)
(*                                                                         *)
(* Text is modelled as Python models it: a string is a sequence of code    *)
(* points, a csv file is one string, and split, strip, join, str() and     *)
(* sorted() are computed on the characters.  A Python value is a record    *)
(* [kind, n, s]: an int, a str or None.                                    *)
(***************************************************************************)
EXTENDS Integers, Sequences, FiniteSets, TLC

VARIABLES
    files,              \* region -> [exists, text]: the csv files on disk
    pc,                 \* position of the running process
    i,                  \* index of the region being processed
    runs,               \* number of times the script was started
    date, zips, cases,  \* arguments of the current write_data call
    dates, overwrite, num_dates, new_data, sorted_zip_codes, n,
                        \* locals of write_data (n: index of the row loop)
    err,                \* why the process exited ("none" while it runs)
    started,            \* regions whose turn of the batch loop has begun
    prev,               \* the file as it was when the current call began
    last                \* the write_data call before the current one

vars == <<files, pc, i, runs, date, zips, cases, dates, overwrite, num_dates,
          new_data, sorted_zip_codes, n, err, started, prev, last>>

-----------------------------------------------------------------------------
(* Bounds *)

MaxObs == 2         \* observations passed to one write_data call
NumRegions == 2     \* configured regions of the batch (csv_names has 7)
MaxBatches == 2     \* times the script is started in SpecMain
MaxFeatures == 2    \* features in one ArcGIS response

-----------------------------------------------------------------------------
(* Characters and strings *)

QUOTE == 34
COMMA == 44
NEWLINE == 10
MINUS == 45
ZERO == 48
Whitespace == {9, 10, 11, 12, 13, 32}

EmptyStr == << >>
NA == <<78, 65>>
NoneStr == <<78, 111, 110, 101>>
DataSuppressed == <<68, 97, 116, 97, 32, 83, 117, 112, 112, 114, 101, 115, 115, 101, 100>>

\* Python values
IntVal(v) == [kind |-> "int", n |-> v, s |-> EmptyStr]
StrVal(t) == [kind |-> "str", n |-> 0, s |-> t]
NoneVal == [kind |-> "none", n |-> 0, s |-> EmptyStr]

RECURSIVE NatToStr(_)
NatToStr(v) ==
    IF v < 10 THEN <<ZERO + v>>
    ELSE NatToStr(v \div 10) \o <<ZERO + (v % 10)>>

\* str(x)
PyStr(x) ==
    CASE x.kind = "int" -> IF x.n < 0 THEN <<MINUS>> \o NatToStr(-x.n) ELSE NatToStr(x.n)
      [] x.kind = "str" -> x.s
      [] OTHER -> NoneStr

IsDigits(t) == t # EmptyStr /\ \A k \in 1..Len(t) : t[k] \in ZERO..(ZERO + 9)

RECURSIVE DigitsToNat(_)
DigitsToNat(t) ==
    IF t = EmptyStr THEN 0
    ELSE 10 * DigitsToNat(SubSeq(t, 1, Len(t) - 1)) + (t[Len(t)] - ZERO)

\* s.strip()
Strip(t) ==
    LET keep == {k \in 1..Len(t) : t[k] \notin Whitespace}
    IN IF keep = {} THEN EmptyStr
       ELSE LET lo == CHOOSE k \in keep : \A j \in keep : k <= j
                hi == CHOOSE k \in keep : \A j \in keep : j <= k
            IN SubSeq(t, lo, hi)

\* int(x) succeeds
CanInt(x) ==
    CASE x.kind = "int" -> TRUE
      [] x.kind = "str" ->
            LET t == Strip(x.s)
            IN IsDigits(t) \/ (t # EmptyStr /\ t[1] = MINUS /\ IsDigits(Tail(t)))
      [] OTHER -> FALSE

\* int(x), where it succeeds
PyInt(x) ==
    IF x.kind = "int" THEN x.n
    ELSE LET t == Strip(x.s)
         IN IF t[1] = MINUS THEN 0 - DigitsToNat(Tail(t)) ELSE DigitsToNat(t)

\* s.split(sep)
RECURSIVE Split(_, _)
Split(t, sep) ==
    LET at == {k \in 1..Len(t) : t[k] = sep}
    IN IF at = {} THEN <<t>>
       ELSE LET p == CHOOSE k \in at : \A j \in at : k <= j
            IN <<SubSeq(t, 1, p - 1)>> \o Split(SubSeq(t, p + 1, Len(t)), sep)

\* sep.join(parts)
RECURSIVE Join(_, _)
Join(parts, sep) ==
    IF parts = << >> THEN EmptyStr
    ELSE IF Len(parts) = 1 THEN parts[1]
    ELSE parts[1] \o <<sep>> \o Join(Tail(parts), sep)

\* the lines of a text, each with its newline, as iterating a file yields them
RECURSIVE Lines(_)
Lines(t) ==
    LET at == {k \in 1..Len(t) : t[k] = NEWLINE}
    IN IF t = EmptyStr THEN << >>
       ELSE IF at = {} THEN <<t>>
       ELSE LET p == CHOOSE k \in at : \A j \in at : k <= j
            IN <<SubSeq(t, 1, p)>> \o Lines(SubSeq(t, p + 1, Len(t)))

\* a < b for Python strings: by code point, a proper prefix first
LexLess(a, b) ==
    \/ Len(a) < Len(b) /\ SubSeq(b, 1, Len(a)) = a
    \/ \E k \in 1..Len(a) :
          /\ k <= Len(b)
          /\ SubSeq(a, 1, k - 1) = SubSeq(b, 1, k - 1)
          /\ a[k] < b[k]

\* shorter strings first, then by code point: the order of the numbers
NumericLess(a, b) ==
    \/ Len(a) < Len(b)
    \/ Len(a) = Len(b) /\ LexLess(a, b)

StrLess(a, b) == LexLess(a, b)

\* sorted(keys)
RECURSIVE Sorted(_)
Sorted(S) ==
    IF S = {} THEN << >>
    ELSE LET m == CHOOSE x \in S : \A y \in S \ {x} : StrLess(x, y)
         IN <<m>> \o Sorted(S \ {m})

\* [x] * count
Repeat(x, count) == [k \in 1..count |-> x]

-----------------------------------------------------------------------------
(* Files and dictionaries *)

AbsentFile == [exists |-> FALSE, text |-> EmptyStr]
FileOf(t) == [exists |-> TRUE, text |-> t]

EmptyDict == [k \in {} |-> << >>]
DictSet(d, key, val) == [k \in (DOMAIN d) \cup {key} |-> IF k = key THEN val ELSE d[k]]

\* parse_data_utils.date_string_to_quoted(date)
date_string_to_quoted(d) == <<QUOTE>> \o d \o <<QUOTE>>

\* '"%s"' % zip_code
QuotedZip(z) == <<QUOTE>> \o PyStr(z) \o <<QUOTE>>

-----------------------------------------------------------------------------
(* write_data: reading the csv and merging today's observations *)

\* the lines the open csv yields; nothing when open() raises IOError
ReadLines(f) == IF f.exists THEN Lines(f.text) ELSE << >>

\* dates = [""], or read_csv.readline().strip().split(',')
ReadDates(f, ls) ==
    IF f.exists
    THEN Split(Strip(IF ls = << >> THEN EmptyStr ELSE Head(ls)), COMMA)
    ELSE <<EmptyStr>>

\* quoted_date in dates (only looked at when the file was opened)
IsOverwrite(f, ds, d) ==
    f.exists /\ \E k \in 1..Len(ds) : ds[k] = date_string_to_quoted(d)

\* for row in read_csv: new_data[values[0]] = values[1:]  (values[1:-1] on overwrite)
RECURSIVE LoadRows(_, _, _)
LoadRows(rows, ow, nd) ==
    IF rows = << >> THEN nd
    ELSE LET values == Split(Strip(Head(rows)), COMMA)
             zip_code == values[1]
             old_cases == IF ow THEN SubSeq(values, 2, Len(values) - 1)
                          ELSE Tail(values)
         IN LoadRows(Tail(rows), ow, DictSet(nd, zip_code, old_cases))

\* new_data after the csv was read: the rows after the header
ReadData(ls, ow) ==
    IF ls = << >> THEN EmptyDict ELSE LoadRows(Tail(ls), ow, EmptyDict)

\* num_dates, without the decrement of overwrite mode
NumDatesNoDecrement(ds, ow) == Len(ds) - 1

\* num_dates = len(dates) - 1, minus one on overwrite
NumDates(ds, ow) == IF ow THEN Len(ds) - 2 ELSE Len(ds) - 1

\* an observation replaces the zip code's value for today if it has one
AddObservationReplacing(nd, zip_code, case_count, nprior) ==
    LET key == QuotedZip(zip_code)
    IN IF key \in DOMAIN nd
       THEN IF Len(nd[key]) > nprior
            THEN DictSet(nd, key, SubSeq(nd[key], 1, Len(nd[key]) - 1) \o <<PyStr(case_count)>>)
            ELSE DictSet(nd, key, Append(nd[key], PyStr(case_count)))
       ELSE DictSet(nd, key, Append(Repeat(NA, nprior), PyStr(case_count)))

\* the body of the loop over zip(zips, cases)
AddObservation(nd, zip_code, case_count, nprior) ==
    LET key == QuotedZip(zip_code)
    IN IF key \in DOMAIN nd
       THEN DictSet(nd, key, Append(nd[key], PyStr(case_count)))
       ELSE DictSet(nd, key, Append(Repeat(NA, nprior), PyStr(case_count)))

\* for zip_code, case_count in zip(zips, cases): ...
RECURSIVE AddObservations(_, _, _, _, _)
AddObservations(nd, zs, cs, k, nprior) ==
    IF k > Len(zs) \/ k > Len(cs) THEN nd
    ELSE AddObservations(AddObservation(nd, zs[k], cs[k], nprior), zs, cs, k + 1, nprior)

\* Handle missing zip codes
PadMissing(nd, expected_entries) ==
    [z \in DOMAIN nd |-> IF Len(nd[z]) < expected_entries THEN Append(nd[z], NA) ELSE nd[z]]

\* the check with only the short rows caught
ConsistentShortOnly(nd, expected_entries) ==
    \A z \in DOMAIN nd : Len(nd[z]) >= expected_entries

\* no zip code makes the length check exit
Consistent(nd, expected_entries) ==
    \A z \in DOMAIN nd : Len(nd[z]) = expected_entries

\* new_data as it stands when the length check runs
Merged(ls, ow, nprior, zs, cs) ==
    PadMissing(AddObservations(ReadData(ls, ow), zs, cs, 1, nprior), nprior + 1)

\* the text of one row of the csv
RowText(nd, zip_code) == zip_code \o <<COMMA>> \o Join(nd[zip_code], COMMA) \o <<NEWLINE>>

HeaderText(ds) == Join(ds, COMMA) \o <<NEWLINE>>

\* lines 111-167: the csv is read and the observations are merged; then the
\* length check calls sys.exit, or open(file_path, 'w+') truncates the file
write_data_merge ==
    /\ pc = "call"
    /\ LET f == files[i]
           ls == ReadLines(f)
           ds == ReadDates(f, ls)
           ow == IsOverwrite(f, ds, date)
           nprior == NumDates(ds, ow)
           nd == Merged(ls, ow, nprior, zips, cases)
       IN /\ dates' = ds
          /\ overwrite' = ow
          /\ num_dates' = nprior
          /\ new_data' = nd
          /\ IF Consistent(nd, nprior + 1)
             THEN /\ files' = [files EXCEPT ![i] = FileOf(EmptyStr)]
                  /\ pc' = "header"
                  /\ err' = err
             ELSE /\ files' = files
                  /\ pc' = "exited"
                  /\ err' = "consistency"
    /\ UNCHANGED <<i, runs, date, zips, cases, sorted_zip_codes, n, started, prev, last>>

\* lines 169-172: the header line is written and the keys are sorted
write_data_header ==
    /\ pc = "header"
    /\ dates' = IF overwrite THEN dates ELSE Append(dates, date_string_to_quoted(date))
    /\ files' = [files EXCEPT ![i].text = @ \o HeaderText(dates')]
    /\ sorted_zip_codes' = Sorted(DOMAIN new_data)
    /\ n' = 1
    /\ pc' = "rows"
    /\ UNCHANGED <<i, runs, date, zips, cases, overwrite, num_dates, new_data,
                   err, started, prev, last>>

\* lines 174-176: one turn of the loop over sorted_zip_codes
write_data_row ==
    /\ pc = "rows"
    /\ n <= Len(sorted_zip_codes)
    /\ files' = [files EXCEPT ![i].text = @ \o RowText(new_data, sorted_zip_codes[n])]
    /\ n' = n + 1
    /\ UNCHANGED <<pc, i, runs, date, zips, cases, dates, overwrite, num_dates, new_data,
                   sorted_zip_codes, err, started, prev, last>>

\* write_csv.close(), and the function returns
write_data_close ==
    /\ pc = "rows"
    /\ n > Len(sorted_zip_codes)
    /\ pc' = "returned"
    /\ UNCHANGED <<files, i, runs, date, zips, cases, dates, overwrite, num_dates, new_data,
                   sorted_zip_codes, n, err, started, prev, last>>

write_data == \/ write_data_merge
              \/ write_data_header
              \/ write_data_row
              \/ write_data_close

-----------------------------------------------------------------------------
(* get_case_counts *)

\* lines 85-93: the case count of one feature as it is appended to cases
ConvertCase(c) ==
    IF c = StrVal(DataSuppressed) THEN StrVal(NA)
    ELSE IF CanInt(c)
         THEN IF PyInt(c) < 0 THEN StrVal(NA) ELSE IntVal(PyInt(c))
         ELSE c

\* the features whose zip code is not None, in order
RECURSIVE KeptFeatures(_)
KeptFeatures(fs) ==
    IF fs = << >> THEN << >>
    ELSE IF Head(fs).zip = NoneVal THEN KeptFeatures(Tail(fs))
    ELSE <<Head(fs)>> \o KeptFeatures(Tail(fs))

FetchedZips(fs) == [k \in 1..Len(KeptFeatures(fs)) |-> KeptFeatures(fs)[k].zip]
FetchedCases(fs) == [k \in 1..Len(KeptFeatures(fs)) |-> ConvertCase(KeptFeatures(fs)[k].cnt)]

-----------------------------------------------------------------------------
(* Inputs *)

Regions == 1..NumRegions

D16 == <<48, 52, 47, 49, 54, 47, 50, 48, 50, 48>>   \* 04/16/2020
D17 == <<48, 52, 47, 49, 55, 47, 50, 48, 50, 48>>   \* 04/17/2020
Dates == {D16, D17}

\* zip codes as ArcGIS reports them, a number or a string: 10 and "9".
\* Zip codes hold no comma and no newline; case counts may, being any string.
ZipCodes == {IntVal(10), StrVal(<<57>>)}

\* case counts as get_case_counts returns them: 5, and the string "5,5",
\* which int() rejects and the function passes through as it is
CaseCounts == {IntVal(5), StrVal(<<53, 44, 53>>)}

Observations == UNION {[1..m -> ZipCodes \X CaseCounts] : m \in 0..MaxObs}

\* case counts whose text holds no comma: 5 and 'NA'
PlainCaseCounts == {IntVal(5), StrVal(NA)}
PlainObservations == UNION {[1..m -> ZipCodes \X PlainCaseCounts] : m \in 0..MaxObs}

\* what an ArcGIS response holds: zip codes None and 10; counts -1, "5" and
\* 'Data Suppressed'
FeatureZips == {NoneVal, IntVal(10)}
FeatureCounts == {IntVal(-1), StrVal(<<53>>), StrVal(DataSuppressed)}
Features == [zip : FeatureZips, cnt : FeatureCounts]
Responses == UNION {[1..m -> Features] : m \in 0..MaxFeatures}

-----------------------------------------------------------------------------
(* Spec: a caller that runs write_data again and again on one csv *)

Init ==
    /\ files = [r \in Regions |-> AbsentFile]
    /\ pc = "idle"
    /\ i = 1
    /\ runs = 0
    /\ date = EmptyStr
    /\ zips = << >>
    /\ cases = << >>
    /\ dates = <<EmptyStr>>
    /\ overwrite = FALSE
    /\ num_dates = 0
    /\ new_data = EmptyDict
    /\ sorted_zip_codes = << >>
    /\ n = 1
    /\ err = "none"
    /\ started = {}
    /\ prev = AbsentFile
    /\ last = [any |-> FALSE, ok |-> FALSE, date |-> EmptyStr]

\* write_data(file_path, date, zips, cases) is called on the csv, with
\* observations drawn from inputs
CallWith(inputs) ==
    /\ pc = "idle"
    /\ \E d \in Dates, obs \in inputs :
          /\ date' = d
          /\ zips' = [k \in 1..Len(obs) |-> obs[k][1]]
          /\ cases' = [k \in 1..Len(obs) |-> obs[k][2]]
    /\ prev' = files[i]
    /\ pc' = "call"
    /\ UNCHANGED <<files, i, runs, dates, overwrite, num_dates, new_data,
                   sorted_zip_codes, n, err, started, last>>

Call == CallWith(Observations)

\* the caller has control again, after the return or after catching the
\* SystemExit: the frame of write_data is gone
Return ==
    /\ pc \in {"returned", "exited"}
    /\ last' = [any |-> TRUE, ok |-> pc = "returned", date |-> date]
    /\ pc' = "idle"
    /\ err' = "none"
    /\ date' = EmptyStr
    /\ zips' = << >>
    /\ cases' = << >>
    /\ dates' = <<EmptyStr>>
    /\ overwrite' = FALSE
    /\ num_dates' = 0
    /\ new_data' = EmptyDict
    /\ sorted_zip_codes' = << >>
    /\ n' = 1
    /\ prev' = AbsentFile
    /\ UNCHANGED <<files, i, runs, started>>

Next == Call \/ write_data \/ Return

Spec == Init /\ [][Next]_vars

\* SpecPlain: the same caller, passing only case counts without a comma
CallPlain == CallWith(PlainObservations)

NextPlain == CallPlain \/ write_data \/ Return

SpecPlain == Init /\ [][NextPlain]_vars

-----------------------------------------------------------------------------
(* SpecMain: the script, started again and again; each start runs the loop *)
(* of __main__ over the regions                                            *)

\* the script is started: for i in range(0, len(csv_names)) begins
StartBatch ==
    /\ pc \in {"idle", "finished", "exited"}
    /\ runs < MaxBatches
    /\ runs' = runs + 1
    /\ i' = 1
    /\ started' = {1}
    /\ pc' = "date"
    /\ err' = "none"
    /\ date' = EmptyStr
    /\ zips' = << >>
    /\ cases' = << >>
    /\ dates' = <<EmptyStr>>
    /\ overwrite' = FALSE
    /\ num_dates' = 0
    /\ new_data' = EmptyDict
    /\ sorted_zip_codes' = << >>
    /\ n' = 1
    /\ prev' = AbsentFile
    /\ UNCHANGED <<files, last>>

\* date = get_update_date(overview_url, location)
get_update_date ==
    /\ pc = "date"
    /\ \E d \in Dates : date' = d
    /\ pc' = "counts"
    /\ UNCHANGED <<files, i, runs, zips, cases, dates, overwrite, num_dates, new_data,
                   sorted_zip_codes, n, err, started, prev, last>>

\* get_update_date finds no 'Last Edit Date' in the page: res is None and
\* res.group raises, which nothing catches
get_update_date_raise ==
    /\ pc = "date"
    /\ pc' = "exited"
    /\ err' = "date"
    /\ UNCHANGED <<files, i, runs, date, zips, cases, dates, overwrite, num_dates, new_data,
                   sorted_zip_codes, n, started, prev, last>>

\* zips, cases = get_case_counts(...), and write_data is called with them
get_case_counts ==
    /\ pc = "counts"
    /\ \E fs \in Responses :
          /\ zips' = FetchedZips(fs)
          /\ cases' = FetchedCases(fs)
    /\ prev' = files[i]
    /\ pc' = "call"
    /\ UNCHANGED <<files, i, runs, date, dates, overwrite, num_dates, new_data,
                   sorted_zip_codes, n, err, started, last>>

\* the response has no 'features': sys.exit
get_case_counts_exit ==
    /\ pc = "counts"
    /\ pc' = "exited"
    /\ err' = "fetch"
    /\ UNCHANGED <<files, i, runs, date, zips, cases, dates, overwrite, num_dates, new_data,
                   sorted_zip_codes, n, started, prev, last>>

\* print("%s - Finished scraping data"), and the loop goes on to the next region
FinishRegion ==
    /\ pc = "returned"
    /\ IF i < NumRegions
       THEN /\ i' = i + 1
            /\ started' = started \cup {i + 1}
            /\ pc' = "date"
       ELSE /\ i' = i
            /\ started' = started
            /\ pc' = "finished"
    /\ last' = [any |-> TRUE, ok |-> TRUE, date |-> date]
    /\ date' = EmptyStr
    /\ zips' = << >>
    /\ cases' = << >>
    /\ dates' = <<EmptyStr>>
    /\ overwrite' = FALSE
    /\ num_dates' = 0
    /\ new_data' = EmptyDict
    /\ sorted_zip_codes' = << >>
    /\ n' = 1
    /\ prev' = AbsentFile
    /\ UNCHANGED <<files, runs, err>>

NextMain ==
    \/ StartBatch
    \/ get_update_date
    \/ get_update_date_raise
    \/ get_case_counts
    \/ get_case_counts_exit
    \/ write_data
    \/ FinishRegion

SpecMain == Init /\ [][NextMain]_vars

-----------------------------------------------------------------------------
(* The csv as a reader of the file sees it *)

Now == files[i]

\* the header's date columns, without the empty first field
DateColumns(f) == Tail(ReadDates(f, ReadLines(f)))

\* the rows after the header, each split at its commas: <<zip, value, ...>>
TableRows(f) ==
    [k \in 1..(Len(ReadLines(f)) - 1) |-> Split(Strip(ReadLines(f)[k + 1]), COMMA)]

RowKeys(f) == {TableRows(f)[k][1] : k \in 1..Len(TableRows(f))}

\* the values of the row of zip code z
RowOf(f, z) ==
    Tail(TableRows(f)[CHOOSE k \in 1..Len(TableRows(f)) : TableRows(f)[k][1] = z])

Cell(row, c) == IF c \in 1..Len(row) THEN row[c] ELSE EmptyStr

QuotedDate == date_string_to_quoted(date)

DateInHeader(f) == \E c \in 1..Len(DateColumns(f)) : DateColumns(f)[c] = QuotedDate

\* the keys of the run's observations, and those passed more than once
ObservedKeys == {QuotedZip(zips[k]) : k \in 1..Len(zips)}
DuplicateKeys ==
    {QuotedZip(zips[a]) : a \in {x \in 1..Len(zips) :
        \E y \in 1..Len(zips) : y # x /\ QuotedZip(zips[y]) = QuotedZip(zips[x])}}

\* the text of the last observation for key z
ObservedText(z) ==
    LET at == {k \in 1..Len(zips) : QuotedZip(zips[k]) = z}
    IN PyStr(cases[CHOOSE k \in at : \A j \in at : j <= k])

\* write_data has returned: the file is written and closed
Written == pc = "returned"
\* write_data has ended in the length check's sys.exit
Failed == pc = "exited" /\ err = "consistency"

-----------------------------------------------------------------------------
(* Claims *)

\* C1: every file a run of write_data has written holds, in each row, exactly
\* len(header) - 1 case values.
C1_Rectangular ==
    Written =>
        \A k \in 1..Len(TableRows(Now)) :
            Len(TableRows(Now)[k]) - 1 = Len(DateColumns(Now))

\* C2: when write_data has run twice in a row with the same date, the second
\* run leaves the header as it was, leaves every column before the last as it
\* was, the last column holds the second run's values (the observed value, or
\* NA for a zip code the run did not observe), and the number of rows is the
\* same when the second run's zip codes were all in the table.
C2_SameDayOverwrite ==
    (Written /\ last.any /\ last.ok /\ last.date = date) =>
        /\ DateColumns(Now) = DateColumns(prev)
        /\ \A z \in RowKeys(prev) :
              /\ z \in RowKeys(Now)
              /\ \A c \in 1..(Len(DateColumns(prev)) - 1) :
                    Cell(RowOf(Now, z), c) = Cell(RowOf(prev, z), c)
        /\ \A z \in RowKeys(Now) :
              Cell(RowOf(Now, z), Len(DateColumns(Now)))
                  = IF z \in ObservedKeys THEN ObservedText(z) ELSE NA
        /\ ObservedKeys \subseteq RowKeys(prev) =>
              Len(TableRows(Now)) = Len(TableRows(prev))

\* C3 as claimed: a run whose observations repeat a zip code completes, and
\* the zip code's row holds one value for the date, that of the last duplicate.
C3_DuplicateOverwrites ==
    (DuplicateKeys # {} /\ pc \in {"returned", "exited"}) =>
        /\ Written
        /\ \A z \in DuplicateKeys :
              /\ z \in RowKeys(Now)
              /\ Len(RowOf(Now, z)) = Len(DateColumns(Now))
              /\ Cell(RowOf(Now, z), Len(DateColumns(Now))) = ObservedText(z)

\* no row of the csv has fewer values than the header has dates
NoShortRow(f) ==
    \A k \in 1..Len(TableRows(f)) : Len(TableRows(f)[k]) - 1 >= Len(DateColumns(f))

\* C3 amended: on a csv without a short row, a run whose observations repeat
\* a zip code appends one value per observation, so the zip code's list is
\* longer than num_dates + 1, the run ends in the length check's sys.exit and
\* the file is left as it was.
C3_DuplicateFails ==
    (DuplicateKeys # {} /\ pc # "call" /\ NoShortRow(prev)) =>
        /\ Failed
        /\ Now = prev
        /\ \A z \in DuplicateKeys : Len(new_data[z]) > num_dates + 1

C3_Witness ==
    /\ Failed
    /\ DuplicateKeys # {}
    /\ prev.exists
    /\ RowKeys(prev) # {}

\* C4: whenever after the padding pass some list of new_data does not have
\* num_dates + 1 values, write_data exits with the consistency error and the
\* file is what it was before the run (absent if it was absent).
C4_FailureLeavesFile ==
    (\E z \in DOMAIN new_data : Len(new_data[z]) # num_dates + 1) =>
        /\ Failed
        /\ Now = prev

C4_Witness ==
    /\ Failed
    /\ DuplicateKeys = {}
    /\ prev.exists
    /\ Now = prev
    /\ \E z \in DOMAIN new_data : Len(new_data[z]) # num_dates + 1

\* C5: when the process of the batch has exited on a failure, the turn of
\* every region of the batch has begun: a failure ends one region's turn only.
C5_FailureIsolated ==
    pc = "exited" => started = Regions

\* the text write_data is writing: the header and the rows in sorted order
RECURSIVE RowsText(_, _)
RowsText(nd, keys) ==
    IF keys = << >> THEN EmptyStr
    ELSE RowText(nd, Head(keys)) \o RowsText(nd, Tail(keys))

NewText ==
    HeaderText(IF overwrite \/ pc # "header" THEN dates ELSE Append(dates, QuotedDate))
        \o RowsText(new_data, Sorted(DOMAIN new_data))

\* C6: at every point of a run of write_data the file is the complete table
\* from before the run or the complete new table.
C6_WholeFileReplace ==
    (pc \in {"header", "rows", "returned"} \/ Failed) =>
        \/ Now = prev
        \/ Now = FileOf(NewText)

\* C7: after a run whose date was not in the header, every zip code that had
\* a row and is not among the run's observations has its earlier values
\* followed by exactly one NA.
C7_MissingZipPadded ==
    (Written /\ ~DateInHeader(prev)) =>
        \A z \in RowKeys(prev) \ ObservedKeys :
            /\ z \in RowKeys(Now)
            /\ RowOf(Now, z) = Append(RowOf(prev, z), NA)

\* the number of existing date columns, minus one when the date is among them
PriorDates == Len(DateColumns(prev)) - (IF DateInHeader(prev) THEN 1 ELSE 0)

\* C8: after a run, the row of a zip code that had no row and is among the
\* observations is num_prior_dates NA entries followed by the run's value;
\* with an absent file that is the value alone.
C8_NewZipPadded ==
    Written =>
        \A z \in ObservedKeys \ RowKeys(prev) :
            /\ z \in RowKeys(Now)
            /\ Join(RowOf(Now, z), COMMA)
                  = Join(Append(Repeat(NA, PriorDates), ObservedText(z)), COMMA)
            /\ ~prev.exists => Join(RowOf(Now, z), COMMA) = ObservedText(z)

C8_Witness ==
    /\ Written
    /\ prev.exists
    /\ DateInHeader(prev)
    /\ Len(DateColumns(prev)) = 2
    /\ ObservedKeys \ RowKeys(prev) # {}
    /\ RowKeys(prev) # {}

\* C9: in every file write_data has written the zip codes of the rows are in
\* strictly ascending order of the quoted string, so none has two rows.
C9_SortedUniqueRows ==
    Written =>
        \A a, b \in 1..Len(TableRows(Now)) :
            a < b => LexLess(TableRows(Now)[a][1], TableRows(Now)[b][1])

C9_Witness ==
    /\ Written
    /\ Len(TableRows(Now)) = 2
    /\ Len(zips) = 2
    /\ LexLess(QuotedZip(zips[2]), QuotedZip(zips[1]))

\* C10: after a run in overwrite mode the header is as it was and every
\* column headed by another date holds, for every zip code that had a row,
\* the value it held before the run.
C10_OverwriteOwnColumn ==
    (Written /\ DateInHeader(prev)) =>
        /\ DateColumns(Now) = DateColumns(prev)
        /\ \A z \in RowKeys(prev) :
              /\ z \in RowKeys(Now)
              /\ \A c \in 1..Len(DateColumns(prev)) :
                    DateColumns(prev)[c] # QuotedDate =>
                        Cell(RowOf(Now, z), c) = Cell(RowOf(prev, z), c)

====
